---------------------------- MODULE Spec2Model ----------------------------
(***************************************************************************)
(* Natural-language-to-SQL assistant: the Streamlit script of app.py, the  *)
(* LangGraph pipeline of agent_graph.py and the MySQL helpers of           *)
(* db_tools.py.                                                            *)
(*                                                                         *)
(* Python strings are sequences of one-character strings, so that strip(), *)
(* upper(), the "in" substring test, f-string interpolation and str() are  *)
(* computed as Python computes them.  The language model and the database  *)
(* are external: their replies are chosen nondeterministically.            *)
(***************************************************************************)
EXTENDS Integers, Sequences, FiniteSets, TLC

\* ------------------------------------------------------------------ bounds

\* A model reply is the concatenation of at most MaxReplyChunks chunks.
MaxReplyChunks == 2

\* A row-returning statement returns at most MaxRows rows; a statement that
\* returns no rows affects at most MaxRows rows.
MaxRows == 2

\* ------------------------------------------------------- Python str helpers

\* Python's None.
None == <<"<None>">>

\* The connection get_db_connection returns when it cannot connect (None);
\* live connections are numbered from 1.
NoConn == 0

\* No exception raised.
NoException == [type |-> "None", msg |-> << >>]

\* The database was not asked.
NoOutcome == [kind |-> "none"]

\* The character U+0060, which a TLA+ string cannot hold.
Backtick == "GRAVE ACCENT"

Min(S) == CHOOSE x \in S : \A y \in S : x <= y

Max(S) == CHOOSE x \in S : \A y \in S : x >= y

\* a + b + c ... for a sequence of strings
RECURSIVE Concat(_)
Concat(ss) ==
    IF ss = << >> THEN << >> ELSE Head(ss) \o Concat(Tail(ss))

\* sep.join(ss)
RECURSIVE Join(_, _)
Join(sep, ss) ==
    IF ss = << >> THEN << >>
    ELSE IF Len(ss) = 1 THEN Head(ss)
    ELSE Head(ss) \o sep \o Join(sep, Tail(ss))

\* c * n for a one-character string c
Repeat(c, n) == [i \in 1..n |-> c]

\* w in s
Contains(s, w) ==
    \E i \in 0..(Len(s) - Len(w)) : \A k \in 1..Len(w) : s[i + k] = w[k]

\* s.startswith(w)
StartsWith(s, w) ==
    /\ Len(w) <= Len(s)
    /\ \A k \in 1..Len(w) : s[k] = w[k]

\* s.endswith(w)
EndsWith(s, w) ==
    /\ Len(w) <= Len(s)
    /\ \A k \in 1..Len(w) : s[Len(s) - Len(w) + k] = w[k]

\* The characters str.strip() removes (ASCII whitespace).
Whitespace == {" ", "\t", "\n", "\r", "\f"}

LowerLetters == <<"a","b","c","d","e","f","g","h","i","j","k","l","m","n",
                  "o","p","q","r","s","t","u","v","w","x","y","z">>

UpperLetters == <<"A","B","C","D","E","F","G","H","I","J","K","L","M","N",
                  "O","P","Q","R","S","T","U","V","W","X","Y","Z">>

UpperChar(c) ==
    IF \E i \in 1..Len(LowerLetters) : LowerLetters[i] = c
    THEN UpperLetters[CHOOSE i \in 1..Len(LowerLetters) : LowerLetters[i] = c]
    ELSE c

\* s.upper()
Upper(s) == [i \in 1..Len(s) |-> UpperChar(s[i])]

\* A variant of Strip that works like lstrip(): trailing whitespace stays.
StripLeadingOnly(s) ==
    LET keep == {i \in 1..Len(s) : s[i] \notin Whitespace}
    IN  IF keep = {} THEN << >> ELSE SubSeq(s, Min(keep), Len(s))

\* s.strip(): only leading and trailing whitespace goes
Strip(s) ==
    LET keep == {i \in 1..Len(s) : s[i] \notin Whitespace}
    IN  IF keep = {} THEN << >> ELSE SubSeq(s, Min(keep), Max(keep))

Digits == <<"0","1","2","3","4","5","6","7","8","9">>

\* str(n) for an int n >= 0
RECURSIVE IntStr(_)
IntStr(n) ==
    IF n < 10 THEN <<Digits[n + 1]>>
    ELSE IntStr(n \div 10) \o <<Digits[(n % 10) + 1]>>

\* str(row) for a tuple of ints: "(1,)" and "(1, 7)"
TupleStr(row) ==
    <<"(">> \o Join(<<","," ">>, [i \in 1..Len(row) |-> IntStr(row[i])])
        \o (IF Len(row) = 1 THEN <<",",")">> ELSE <<")">>)

\* str(rows) for a list of tuples: "[]" and "[(1,), (2,)]"
ListStr(rows) ==
    <<"[">> \o Join(<<","," ">>, [i \in 1..Len(rows) |-> TupleStr(rows[i])]) \o <<"]">>

\* A Python value that is either a str or a list of row tuples.
PyStr(v) == [t |-> "str", v |-> v]

PyList(v) == [t |-> "list", v |-> v]

\* str(value)
Str(value) == IF value.t = "str" THEN value.v ELSE ListStr(value.v)

\* dict.get(key, default) and d[key] = v
Get(d, key, default) == IF key \in DOMAIN d THEN d[key] ELSE default

Put(d, key, v) == [k \in DOMAIN d \cup {key} |-> IF k = key THEN v ELSE d[k]]

EmptyDict == [k \in {} |-> None]

\* --------------------------------------------------- the external services

\* What the language model may answer: any concatenation of these chunks.
ReplyChunks ==
    { <<"C","R","E","A","T","E">>, <<"U","P","D","A","T","E">>, <<"D","E","L","E","T","E">>, <<"c","r","e","a","t","e">>, <<"U","p","d","a","t","e">>,
      <<" ","x">>, <<"\n">> }

RECURSIVE RepliesUpTo(_)
RepliesUpTo(n) ==
    IF n = 0 THEN { << >> }
    ELSE LET shorter == RepliesUpTo(n - 1)
         IN  shorter \cup { r \o c : r \in shorter, c \in ReplyChunks }

LlmReplies == RepliesUpTo(MaxReplyChunks)

\* llm.invoke either returns a reply or raises (the API is remote).
LlmOutcomes ==
    [kind : {"reply"}, content : LlmReplies]
        \cup { [kind |-> "raise", content |-> <<"A","P","I"," ","e","r","r","o","r">>] }

\* The tables the database may hold: name and (column, type) pairs.
UsersTable ==
    [name |-> <<"u","s","e","r","s">>,
     columns |-> << <<<<"i","d">>, <<"i","n","t">>>>, <<<<"n","a","m","e">>, <<"t","e","x","t">>>> >>]

LogTable == [name |-> <<"l","o","g">>, columns |-> << <<<<"t","s">>, <<"i","n","t">>>> >>]

\* What the database answers to get_schema's SHOW TABLES / DESCRIBE.
SchemaResponses ==
    { [kind |-> "tables", tables |-> << >>],
      [kind |-> "tables", tables |-> <<UsersTable, LogTable>>],
      [kind |-> "error", msg |-> <<"1","1","4","2"," ","d","e","n","i","e","d">>] }

\* The result sets a row-returning statement may fetch: column names and the
\* rows that fit them.
ResultColumns == { <<<<"i","d">>>>, <<<<"i","d">>, <<"n","m">>>> }

RowChoices(cols) ==
    IF Len(cols) = 1 THEN { <<1>>, <<2>> } ELSE { <<1, 7>> }

RECURSIVE RowLists(_, _)
RowLists(cols, n) ==
    IF n = 0 THEN { << >> }
    ELSE LET shorter == RowLists(cols, n - 1)
         IN  shorter \cup { Append(rs, r) : rs \in shorter, r \in RowChoices(cols) }

\* What the database does with the executor's statement:
\*   cursor_error  conn.cursor() raises (the connection dropped)
\*   sql_error     cursor.execute / fetchall / commit raises mysql.connector.Error
\*   rows          cursor.with_rows, fetchall returns the rows
\*   rowcount      no result set; cursor.rowcount rows affected
DbOutcomes ==
    UNION { { [kind |-> "rows", cols |-> c, rows |-> rs] : rs \in RowLists(c, MaxRows) } :
                c \in ResultColumns }
    \cup { [kind |-> "rowcount", n |-> n] : n \in 0..MaxRows }
    \cup { [kind |-> "sql_error", msg |-> m] : m \in { <<"1","0","6","4"," ","s","y","n","t","a","x">>, <<"1","1","4","6"," ","n","o"," ","t","a","b","l","e">> } }
    \cup { [kind |-> "cursor_error", msg |-> <<"2","0","5","5"," ","l","o","s","t">>] }

MysqlError(msg) == [type |-> "mysql.connector.Error", msg |-> msg]

\* None.close(): 'NoneType' object has no attribute 'close'
NoneCloseError ==
    [type |-> "AttributeError",
     msg |-> <<"'","N","o","n","e","T","y","p","e","'"," ","o","b","j",
               "e","c","t"," ","h","a","s"," ","n","o"," ","a","t","t",
               "r","i","b","u","t","e"," ","'","c","l","o","s","e","'">>]

\* What the user may have typed into the text box.
UserQueries == { << >>, <<"s","h","o","w"," ","u","s","e","r","s">> }

\* ------------------------------------------------------------- db_tools.py

CouldNotConnect == <<"C","o","u","l","d"," ","n","o","t"," ","c","o","n","n",
                     "e","c","t"," ","t","o"," ","d","a","t","a","b","a","s",
                     "e",".">>

DatabaseEmpty == <<"T","h","e"," ","d","a","t","a","b","a","s","e"," ","i",
                   "s"," ","e","m","p","t","y","."," ","N","o"," ","t","a",
                   "b","l","e","s"," ","f","o","u","n","d",".">>

SqlErrorPrefix == <<"S","Q","L"," ","E","r","r","o","r",":"," ">>

ExecutedPrefix == <<"Q","u","e","r","y"," ","e","x","e","c","u","t","e","d",
                    " ","s","u","c","c","e","s","s","f","u","l","l","y",".",
                    " ">>

ExecutedSuffix == <<" ","r","o","w","s"," ","a","f","f","e","c","t","e","d",
                    ".">>

\* get_db_connection: a new connection, appended to the connections this
\* interaction has opened, or None when mysql.connector.connect fails.
\* A connection is named by its index in conns.
GetDbConnection(cs, connOk) ==
    IF connOk
    THEN [conn |-> Len(cs) + 1, conns |-> Append(cs, "open")]
    ELSE [conn |-> NoConn, conns |-> cs]

\* conn.close()
Close(cs, conn) == [cs EXCEPT ![conn] = "closed"]

\* The text get_schema builds for one table.
TableSchema(tbl) ==
    <<"T","a","b","l","e",":"," ">> \o tbl.name \o <<"\n">>
        \o Concat([i \in 1..Len(tbl.columns) |->
                     <<" "," ","-"," ">> \o tbl.columns[i][1] \o <<" ","(">>
                         \o tbl.columns[i][2] \o <<")","\n">>])

\* get_schema(conn): [ret, raised]
GetSchema(conn, resp) ==
    IF conn = NoConn
    THEN [ret |-> CouldNotConnect, raised |-> NoException]
    ELSE IF resp.kind = "error"
    THEN [ret |-> None, raised |-> MysqlError(resp.msg)]
    ELSE LET schema_str ==
                 Concat([i \in 1..Len(resp.tables) |-> TableSchema(resp.tables[i])])
         IN  [ret |-> IF schema_str = << >> THEN DatabaseEmpty ELSE schema_str,
              raised |-> NoException]

\* A variant of ExecuteQuery that joins the rows without the header and rule.
ExecuteQueryNoHeader(conn, query, out) ==
    IF conn = NoConn
    THEN [ret |-> PyStr(CouldNotConnect), raised |-> NoException, executed |-> << >>]
    ELSE IF out.kind = "cursor_error"
    THEN [ret |-> None, raised |-> MysqlError(out.msg), executed |-> << >>]
    ELSE IF out.kind = "sql_error"
    THEN [ret |-> PyStr(SqlErrorPrefix \o out.msg), raised |-> NoException,
          executed |-> <<query>>]
    ELSE [ret |-> IF out.kind = "rows"
                  THEN IF out.rows # << >>
                       THEN PyStr(Join(<<"\n">>, [i \in 1..Len(out.rows) |-> TupleStr(out.rows[i])]))
                       ELSE PyList(out.rows)
                  ELSE PyStr(ExecutedPrefix \o IntStr(out.n) \o ExecutedSuffix),
          raised |-> NoException, executed |-> <<query>>]

\* A variant of ExecuteQuery that returns the bare driver message for a failed
\* statement.
ExecuteQueryBareError(conn, query, out) ==
    IF conn = NoConn
    THEN [ret |-> PyStr(CouldNotConnect), raised |-> NoException, executed |-> << >>]
    ELSE IF out.kind = "cursor_error"
    THEN [ret |-> None, raised |-> MysqlError(out.msg), executed |-> << >>]
    ELSE IF out.kind = "sql_error"
    THEN [ret |-> PyStr(out.msg), raised |-> NoException, executed |-> <<query>>]
    ELSE ExecuteQueryNoHeader(conn, query, out)

\* execute_query(conn, query): [ret, raised, executed], where executed lists
\* the statements handed to cursor.execute.  Column values are ints.
ExecuteQuery(conn, query, out) ==
    IF conn = NoConn
    THEN [ret |-> PyStr(CouldNotConnect), raised |-> NoException, executed |-> << >>]
    ELSE IF out.kind = "cursor_error"
    THEN [ret |-> None, raised |-> MysqlError(out.msg), executed |-> << >>]
    ELSE IF out.kind = "sql_error"
    THEN [ret |-> PyStr(SqlErrorPrefix \o out.msg), raised |-> NoException,
          executed |-> <<query>>]
    ELSE LET result ==
                 IF out.kind = "rows"
                 THEN PyList(out.rows)
                 ELSE PyStr(ExecutedPrefix \o IntStr(out.n) \o ExecutedSuffix)
             result_str ==
                 Join(<<"\n">>, [i \in 1..Len(result.v) |-> TupleStr(result.v[i])])
             header == Join(<<" ","|"," ">>, out.cols)
         IN  [ret |-> IF result.t = "list" /\ result.v # << >>
                      THEN PyStr(header \o <<"\n">> \o Repeat("-", Len(header))
                                     \o <<"\n">> \o result_str)
                      ELSE result,
              raised |-> NoException, executed |-> <<query>>]

\* ---------------------------------------------------------- agent_graph.py

CREATE == <<"C","R","E","A","T","E">>

READ == <<"R","E","A","D">>

UPDATE == <<"U","P","D","A","T","E">>

DELETE == <<"D","E","L","E","T","E">>

\* The classification prompt of router_node: the f-string's text around
\* {state['query']}, character for character.
RouterPrompt(st) ==
    <<"\n"," "," "," "," ","B","a","s","e","d"," ","o","n"," ",
      "t","h","e"," ","u","s","e","r","'","s"," ","q","u","e",
      "r","y",","," ","c","l","a","s","s","i","f","y"," ","t",
      "h","e"," ","i","n","t","e","n","t"," ","a","s"," ","o",
      "n","e"," ","o","f"," ","t","h","e"," ","f","o","l","l",
      "o","w","i","n","g",":"," ","C","R","E","A","T","E",",",
      " ","R","E","A","D",","," ","U","P","D","A","T","E",",",
      " ","D","E","L","E","T","E",".","\n"," "," "," "," ","-",
      " ","*","*","C","R","E","A","T","E","*","*",":"," ","U",
      "s","e","r"," ","w","a","n","t","s"," ","t","o"," ","a",
      "d","d"," ","n","e","w"," ","s","t","r","u","c","t","u",
      "r","e","s"," ","(","e",".","g",".",","," ","'","m","a",
      "k","e"," ","a"," ","t","a","b","l","e","'",","," ","'",
      "c","r","e","a","t","e"," ","a"," ","d","a","t","a","b",
      "a","s","e","'",")",".","\n"," "," "," "," ","-"," ","*",
      "*","R","E","A","D","*","*",":"," ","U","s","e","r"," ",
      "w","a","n","t","s"," ","t","o"," ","a","s","k"," ","a",
      " ","q","u","e","s","t","i","o","n"," ","o","r"," ","s",
      "e","e"," ","d","a","t","a"," ","(","e",".","g",".",",",
      " ","'","w","h","a","t"," ","i","s","'",","," ","'","s",
      "h","o","w"," ","m","e","'",","," ","'","l","i","s","t",
      " ","a","l","l","'",","," ","'","d","e","s","c","r","i",
      "b","e"," ","t","a","b","l","e","'",")",".","\n"," "," ",
      " "," ","-"," ","*","*","U","P","D","A","T","E","*","*",
      ":"," ","U","s","e","r"," ","w","a","n","t","s"," ","t",
      "o"," ","m","o","d","i","f","y"," ","e","x","i","s","t",
      "i","n","g"," ","d","a","t","a"," ","o","r"," ","s","t",
      "r","u","c","t","u","r","e","s"," ","(","e",".","g",".",
      ","," ","'","c","h","a","n","g","e","'",","," ","'","m",
      "o","d","i","f","y","'",","," ","'","s","e","t","'",",",
      " ","'","a","l","t","e","r"," ","t","a","b","l","e","'",
      ","," ","'","i","n","s","e","r","t"," ","i","n","t","o",
      "'",")",".","\n"," "," "," "," ","-"," ","*","*","D","E",
      "L","E","T","E","*","*",":"," ","U","s","e","r"," ","w",
      "a","n","t","s"," ","t","o"," ","r","e","m","o","v","e",
      " ","d","a","t","a"," ","o","r"," ","s","t","r","u","c",
      "t","u","r","e","s"," ","(","e",".","g",".",","," ","'",
      "r","e","m","o","v","e","'",","," ","'","d","r","o","p",
      "'",","," ","'","d","e","l","e","t","e"," ","f","r","o",
      "m","'",")",".","\n","\n"," "," "," "," ","U","s","e","r",
      " ","Q","u","e","r","y",":"," ","\"">>
    \o st["query"] \o
    <<"\"","\n","\n"," "," "," "," ","R","e","s","p","o","n","d",
      " ","w","i","t","h"," ","a"," ","s","i","n","g","l","e",
      " ","w","o","r","d",":"," ","C","R","E","A","T","E",",",
      " ","R","E","A","D",","," ","U","P","D","A","T","E",",",
      " ","o","r"," ","D","E","L","E","T","E",".","\n"," "," ",
      " "," ">>

\* A variant of Route whose fallback is DELETE.
RouteDefaultDelete(decision) ==
    IF Contains(decision, CREATE) THEN CREATE
    ELSE IF Contains(decision, UPDATE) THEN UPDATE
    ELSE DELETE

\* A variant of Route that tests the substrings in the order DELETE, UPDATE,
\* CREATE.
RouteDeleteFirst(decision) ==
    IF Contains(decision, DELETE) THEN DELETE
    ELSE IF Contains(decision, UPDATE) THEN UPDATE
    ELSE IF Contains(decision, CREATE) THEN CREATE
    ELSE READ

\* router_node's substring dispatch on decision = content.strip().upper()
Route(decision) ==
    IF Contains(decision, CREATE) THEN CREATE
    ELSE IF Contains(decision, UPDATE) THEN UPDATE
    ELSE IF Contains(decision, DELETE) THEN DELETE
    ELSE READ

\* select_route
SelectRoute(st) == st["route_decision"]

\* A variant of NodeFor that sends every label to read_agent.
NodeForAlwaysRead(label) == "read_agent"

\* The conditional edges of get_agent_graph: route label -> node.
NodeFor(label) ==
    CASE label = CREATE -> "create_agent"
      [] label = READ -> "read_agent"
      [] label = UPDATE -> "update_agent"
      [] label = DELETE -> "delete_agent"

\* The prompts of the four generators: the f-string's text around
\* {state['schema']} and {state['query']}, character for character.
CreatePrompt(st) ==
    <<"\n"," "," "," "," ","Y","o","u"," ","a","r","e"," ","a",
      "n"," ","e","x","p","e","r","t"," ","M","y","S","Q","L",
      " ","d","e","v","e","l","o","p","e","r","."," ","Y","o",
      "u","r"," ","t","a","s","k"," ","i","s"," ","t","o"," ",
      "g","e","n","e","r","a","t","e"," ","a"," ","v","a","l",
      "i","d"," ","S","Q","L"," ","D","D","L"," ","s","t","a",
      "t","e","m","e","n","t"," ","f","o","r"," ","c","r","e",
      "a","t","i","n","g"," ","a"," ","t","a","b","l","e"," ",
      "o","r"," ","o","t","h","e","r"," ","d","a","t","a","b",
      "a","s","e"," ","o","b","j","e","c","t","s"," ","b","a",
      "s","e","d"," ","o","n"," ","t","h","e"," ","u","s","e",
      "r","'","s"," ","q","u","e","r","y"," ","a","n","d"," ",
      "t","h","e"," ","d","a","t","a","b","a","s","e"," ","s",
      "c","h","e","m","a",".","\n","\n"," "," "," "," ","D","a",
      "t","a","b","a","s","e"," ","S","c","h","e","m","a",":",
      "\n"," "," "," "," ">>
    \o st["schema"] \o
    <<"\n","\n"," "," "," "," ","U","s","e","r"," ","Q","u","e",
      "r","y",":","\n"," "," "," "," ">>
    \o st["query"] \o
    <<"\n","\n"," "," "," "," ","I","n","s","t","r","u","c","t",
      "i","o","n","s",":","\n"," "," "," "," ","1","."," ","A",
      "n","a","l","y","z","e"," ","t","h","e"," ","u","s","e",
      "r","'","s"," ","q","u","e","r","y"," ","t","o"," ","u",
      "n","d","e","r","s","t","a","n","d"," ","t","h","e"," ",
      "r","e","q","u","i","r","e","d"," ","t","a","b","l","e",
      " ","s","t","r","u","c","t","u","r","e",","," ","c","o",
      "l","u","m","n"," ","n","a","m","e","s",","," ","a","n",
      "d"," ","d","a","t","a"," ","t","y","p","e","s",".","\n",
      " "," "," "," ","2","."," ","G","e","n","e","r","a","t",
      "e"," ","a"," ","s","i","n","g","l","e",","," ","c","o",
      "m","p","l","e","t","e"," ",Backtick,"C","R","E","A","T","E",
      " ","T","A","B","L","E",Backtick," ","o","r"," ","s","i","m",
      "i","l","a","r"," ","D","D","L"," ","S","Q","L"," ","s",
      "t","a","t","e","m","e","n","t",".","\n"," "," "," "," ",
      "3","."," ","D","o"," ","N","O","T"," ","o","u","t","p",
      "u","t"," ","a","n","y"," ","t","e","x","t"," ","o","r",
      " ","e","x","p","l","a","n","a","t","i","o","n"," ","o",
      "t","h","e","r"," ","t","h","a","n"," ","t","h","e"," ",
      "S","Q","L"," ","q","u","e","r","y"," ","i","t","s","e",
      "l","f",".","\n"," "," "," "," ","4","."," ","D","o"," ",
      "n","o","t"," ","i","n","c","l","u","u","d","e"," ","a",
      "n","y"," ","b","a","c","k","t","i","c","k","s"," ","s",
      "u","c","h"," ","a","s"," ","(",Backtick,Backtick,Backtick,"s","q","l",
      ")"," ","i","n"," ","t","h","e"," ","o","u","t","p","u",
      "t",".","\n"," "," "," "," ">>

ReadPrompt(st) ==
    <<"\n"," "," "," "," ","Y","o","u"," ","a","r","e"," ","a",
      "n"," ","e","x","p","e","r","t"," ","M","y","S","Q","L",
      " ","d","e","v","e","l","o","p","e","r","."," ","Y","o",
      "u","r"," ","t","a","s","k"," ","i","s"," ","t","o"," ",
      "g","e","n","e","r","a","t","e"," ","a"," ","v","a","l",
      "i","d"," ","S","Q","L"," ","q","u","e","r","y"," ","t",
      "o"," ","r","e","t","r","i","e","v","e"," ","i","n","f",
      "o","r","m","a","t","i","o","n"," ","f","r","o","m"," ",
      "t","h","e"," ","d","a","t","a","b","a","s","e"," ","b",
      "a","s","e","d"," ","o","n"," ","t","h","e"," ","u","s",
      "e","r","'","s"," ","q","u","e","r","y"," ","a","n","d",
      " ","t","h","e"," ","d","a","t","a","b","a","s","e"," ",
      "s","c","h","e","m","a",".","\n","\n"," "," "," "," ","D",
      "a","t","a","b","a","s","e"," ","S","c","h","e","m","a",
      ":","\n"," "," "," "," ">>
    \o st["schema"] \o
    <<"\n","\n"," "," "," "," ","U","s","e","r"," ","Q","u","e",
      "r","y",":","\n"," "," "," "," ">>
    \o st["query"] \o
    <<"\n","\n"," "," "," "," ","I","n","s","t","r","u","c","t",
      "i","o","n","s",":","\n"," "," "," "," ","1","."," ","A",
      "n","a","l","y","z","e"," ","t","h","e"," ","u","s","e",
      "r","'","s"," ","q","u","e","r","y"," ","t","o"," ","u",
      "n","d","e","r","s","t","a","n","d"," ","w","h","a","t",
      " ","i","n","f","o","r","m","a","t","i","o","n"," ","t",
      "h","e","y"," ","w","a","n","t"," ","t","o"," ","r","e",
      "t","r","i","e","v","e",".","\n"," "," "," "," ","2",".",
      " ","G","e","n","e","r","a","t","e"," ","a"," ","s","i",
      "n","g","l","e",","," ","c","o","m","p","l","e","t","e",
      " ",Backtick,"S","E","L","E","C","T",Backtick,","," ",Backtick,"S","H",
      "O","W",Backtick,","," ","o","r"," ",Backtick,"D","E","S","C","R",
      "I","B","E",Backtick," ","S","Q","L"," ","s","t","a","t","e",
      "m","e","n","t",".","\n"," "," "," "," ","3","."," ","D",
      "o"," ","N","O","T"," ","o","u","t","p","u","t"," ","a",
      "n","y"," ","t","e","x","t"," ","o","r"," ","e","x","p",
      "l","a","n","a","t","i","o","n"," ","o","t","h","e","r",
      " ","t","h","a","n"," ","t","h","e"," ","S","Q","L"," ",
      "q","u","e","r","y"," ","i","t","s","e","l","f",".","\n",
      " "," "," "," ","4","."," ","D","o"," ","n","o","t"," ",
      "i","n","c","l","u","u","d","e"," ","a","n","y"," ","b",
      "a","c","k","t","i","c","k","s"," ","s","u","c","h"," ",
      "a","s"," ","(",Backtick,Backtick,Backtick,"s","q","l",")"," ","i","n",
      " ","t","h","e"," ","o","u","t","p","u","t",".","\n"," ",
      " "," "," ","\n"," "," "," "," ">>

UpdatePrompt(st) ==
    <<"\n"," "," "," "," ","Y","o","u"," ","a","r","e"," ","a",
      "n"," ","e","x","p","e","r","t"," ","M","y","S","Q","L",
      " ","d","e","v","e","l","o","p","e","r","."," ","Y","o",
      "u","r"," ","t","a","s","k"," ","i","s"," ","t","o"," ",
      "g","e","n","e","r","a","t","e"," ","a"," ","v","a","l",
      "i","d"," ","S","Q","L"," ","D","M","L"," ","s","t","a",
      "t","e","m","e","n","t"," ","t","o"," ","m","o","d","i",
      "f","y"," ","d","a","t","a"," ","o","r"," ","t","a","b",
      "l","e"," ","s","t","r","u","c","t","u","r","e","s"," ",
      "b","a","s","e","d"," ","o","n"," ","t","h","e"," ","u",
      "s","e","r","'","s"," ","q","u","e","r","y"," ","a","n",
      "d"," ","t","h","e"," ","d","a","t","a","b","a","s","e",
      " ","s","c","h","e","m","a","."," ","T","h","i","s"," ",
      "i","n","c","l","u","d","e","s"," ","I","N","S","E","R",
      "T",","," ","U","P","D","A","T","E",","," ","a","n","d",
      " ","A","L","T","E","R"," ","s","t","a","t","e","m","e",
      "n","t","s",".","\n","\n"," "," "," "," ","D","a","t","a",
      "b","a","s","e"," ","S","c","h","e","m","a",":","\n"," ",
      " "," "," ">>
    \o st["schema"] \o
    <<"\n","\n"," "," "," "," ","U","s","e","r"," ","Q","u","e",
      "r","y",":","\n"," "," "," "," ">>
    \o st["query"] \o
    <<"\n","\n"," "," "," "," ","I","n","s","t","r","u","c","t",
      "i","o","n","s",":","\n"," "," "," "," ","1","."," ","A",
      "n","a","l","y","z","e"," ","t","h","e"," ","u","s","e",
      "r","'","s"," ","q","u","e","r","y"," ","t","o"," ","u",
      "n","d","e","r","s","t","a","n","d"," ","w","h","a","t",
      " ","d","a","t","a"," ","o","r"," ","s","t","r","u","c",
      "t","u","r","e"," ","n","e","e","d","s"," ","t","o"," ",
      "b","e"," ","m","o","d","i","f","i","e","d",".","\n"," ",
      " "," "," ","2","."," ","G","e","n","e","r","a","t","e",
      " ","a"," ","s","i","n","g","l","e",","," ","c","o","m",
      "p","l","e","t","e"," ",Backtick,"U","P","D","A","T","E",Backtick,
      ","," ",Backtick,"I","N","S","E","R","T",Backtick,","," ","o","r",
      " ",Backtick,"A","L","T","E","R"," ","T","A","B","L","E",Backtick,
      " ","S","Q","L"," ","s","t","a","t","e","m","e","n","t",
      ".","\n"," "," "," "," ","3","."," ","D","o"," ","N","O",
      "T"," ","o","u","t","p","u","t"," ","a","n","y"," ","t",
      "e","x","t"," ","o","r"," ","e","x","p","l","a","n","a",
      "t","i","o","n"," ","o","t","h","e","r"," ","t","h","a",
      "n"," ","t","h","e"," ","S","Q","L"," ","q","u","e","r",
      "y"," ","i","t","s","e","l","f",".","\n"," "," "," "," ",
      "4","."," ","D","o"," ","n","o","t"," ","i","n","c","l",
      "u","u","d","e"," ","a","n","y"," ","b","a","c","k","t",
      "i","c","k","s"," ","s","u","c","h"," ","a","s"," ","(",
      Backtick,Backtick,Backtick,"s","q","l",")"," ","i","n"," ","t","h","e",
      " ","o","u","t","p","u","t",".","\n"," "," "," "," ">>

\* A variant of DeletePrompt that leaves the schema out.
DeletePromptNoSchema(st) ==
    <<"\n"," "," "," "," ","Y","o","u"," ","a","r","e"," ","a",
      "n"," ","e","x","p","e","r","t"," ","M","y","S","Q","L",
      " ","d","e","v","e","l","o","p","e","r","."," ","Y","o",
      "u","r"," ","t","a","s","k"," ","i","s"," ","t","o"," ",
      "g","e","n","e","r","a","t","e"," ","a"," ","v","a","l",
      "i","d"," ","S","Q","L"," ","D","M","L","/","D","D","L",
      " ","s","t","a","t","e","m","e","n","t"," ","t","o"," ",
      "d","e","l","e","t","e"," ","d","a","t","a"," ","o","r",
      " ","d","r","o","p"," ","d","a","t","a","b","a","s","e",
      " ","o","b","j","e","c","t","s"," ","b","a","s","e","d",
      " ","o","n"," ","t","h","e"," ","u","s","e","r","'","s",
      " ","q","u","e","r","y"," ","a","n","d"," ","t","h","e",
      " ","d","a","t","a","b","a","s","e"," ","s","c","h","e",
      "m","a",".","\n","\n"," "," "," "," ","D","a","t","a","b",
      "a","s","e"," ","S","c","h","e","m","a",":","\n"," "," ",
      " "," ">>
    \o
    <<"\n","\n"," "," "," "," ","U","s","e","r"," ","Q","u","e",
      "r","y",":","\n"," "," "," "," ">>
    \o st["query"] \o
    <<"\n","\n"," "," "," "," ","I","n","s","t","r","u","c","t",
      "i","o","n","s",":","\n"," "," "," "," ","1","."," ","A",
      "n","a","l","y","z","e"," ","t","h","e"," ","u","s","e",
      "r","'","s"," ","q","u","e","r","y"," ","t","o"," ","u",
      "n","d","e","r","s","t","a","n","d"," ","w","h","a","t",
      " ","d","a","t","a"," ","o","r"," ","o","b","j","e","c",
      "t","s"," ","n","e","e","d"," ","t","o"," ","b","e"," ",
      "d","e","l","e","t","e","d",".","\n"," "," "," "," ","2",
      "."," ","G","e","n","e","r","a","t","e"," ","a"," ","s",
      "i","n","g","l","e",","," ","c","o","m","p","l","e","t",
      "e"," ",Backtick,"D","E","L","E","T","E"," ","F","R","O","M",
      Backtick,","," ",Backtick,"D","R","O","P"," ","T","A","B","L","E",
      Backtick,","," ","o","r"," ",Backtick,"T","R","U","N","C","A","T",
      "E"," ","T","A","B","L","E",Backtick," ","S","Q","L"," ","s",
      "t","a","t","e","m","e","n","t",".","\n"," "," "," "," ",
      "3","."," ","B","e"," ","c","a","u","t","i","o","u","s",
      " ","w","i","t","h"," ",Backtick,"D","R","O","P",Backtick," ","a",
      "n","d"," ",Backtick,"D","E","L","E","T","E",Backtick," ","o","p",
      "e","r","a","t","i","o","n","s","."," ","E","n","s","u",
      "r","e"," ","t","h","e","r","e","'","s"," ","a"," ",Backtick,
      "W","H","E","R","E",Backtick," ","c","l","a","u","s","e"," ",
      "i","f"," ","a","p","p","r","o","p","r","i","a","t","e",
      ".","\n"," "," "," "," ","4","."," ","D","o"," ","N","O",
      "T"," ","o","u","t","p","u","t"," ","a","n","y"," ","t",
      "e","x","t"," ","o","r"," ","e","x","p","l","a","n","a",
      "t","i","o","n"," ","o","t","h","e","r"," ","t","h","a",
      "n"," ","t","h","e"," ","S","Q","L"," ","q","u","e","r",
      "y"," ","i","t","s","e","l","f",".","\n"," "," "," "," ">>

DeletePrompt(st) ==
    <<"\n"," "," "," "," ","Y","o","u"," ","a","r","e"," ","a",
      "n"," ","e","x","p","e","r","t"," ","M","y","S","Q","L",
      " ","d","e","v","e","l","o","p","e","r","."," ","Y","o",
      "u","r"," ","t","a","s","k"," ","i","s"," ","t","o"," ",
      "g","e","n","e","r","a","t","e"," ","a"," ","v","a","l",
      "i","d"," ","S","Q","L"," ","D","M","L","/","D","D","L",
      " ","s","t","a","t","e","m","e","n","t"," ","t","o"," ",
      "d","e","l","e","t","e"," ","d","a","t","a"," ","o","r",
      " ","d","r","o","p"," ","d","a","t","a","b","a","s","e",
      " ","o","b","j","e","c","t","s"," ","b","a","s","e","d",
      " ","o","n"," ","t","h","e"," ","u","s","e","r","'","s",
      " ","q","u","e","r","y"," ","a","n","d"," ","t","h","e",
      " ","d","a","t","a","b","a","s","e"," ","s","c","h","e",
      "m","a",".","\n","\n"," "," "," "," ","D","a","t","a","b",
      "a","s","e"," ","S","c","h","e","m","a",":","\n"," "," ",
      " "," ">>
    \o st["schema"] \o
    <<"\n","\n"," "," "," "," ","U","s","e","r"," ","Q","u","e",
      "r","y",":","\n"," "," "," "," ">>
    \o st["query"] \o
    <<"\n","\n"," "," "," "," ","I","n","s","t","r","u","c","t",
      "i","o","n","s",":","\n"," "," "," "," ","1","."," ","A",
      "n","a","l","y","z","e"," ","t","h","e"," ","u","s","e",
      "r","'","s"," ","q","u","e","r","y"," ","t","o"," ","u",
      "n","d","e","r","s","t","a","n","d"," ","w","h","a","t",
      " ","d","a","t","a"," ","o","r"," ","o","b","j","e","c",
      "t","s"," ","n","e","e","d"," ","t","o"," ","b","e"," ",
      "d","e","l","e","t","e","d",".","\n"," "," "," "," ","2",
      "."," ","G","e","n","e","r","a","t","e"," ","a"," ","s",
      "i","n","g","l","e",","," ","c","o","m","p","l","e","t",
      "e"," ",Backtick,"D","E","L","E","T","E"," ","F","R","O","M",
      Backtick,","," ",Backtick,"D","R","O","P"," ","T","A","B","L","E",
      Backtick,","," ","o","r"," ",Backtick,"T","R","U","N","C","A","T",
      "E"," ","T","A","B","L","E",Backtick," ","S","Q","L"," ","s",
      "t","a","t","e","m","e","n","t",".","\n"," "," "," "," ",
      "3","."," ","B","e"," ","c","a","u","t","i","o","u","s",
      " ","w","i","t","h"," ",Backtick,"D","R","O","P",Backtick," ","a",
      "n","d"," ",Backtick,"D","E","L","E","T","E",Backtick," ","o","p",
      "e","r","a","t","i","o","n","s","."," ","E","n","s","u",
      "r","e"," ","t","h","e","r","e","'","s"," ","a"," ",Backtick,
      "W","H","E","R","E",Backtick," ","c","l","a","u","s","e"," ",
      "i","f"," ","a","p","p","r","o","p","r","i","a","t","e",
      ".","\n"," "," "," "," ","4","."," ","D","o"," ","N","O",
      "T"," ","o","u","t","p","u","t"," ","a","n","y"," ","t",
      "e","x","t"," ","o","r"," ","e","x","p","l","a","n","a",
      "t","i","o","n"," ","o","t","h","e","r"," ","t","h","a",
      "n"," ","t","h","e"," ","S","Q","L"," ","q","u","e","r",
      "y"," ","i","t","s","e","l","f",".","\n"," "," "," "," ">>

\* ------------------------------------------------------------------ app.py

SchemaConnectFailed ==
    <<"C","o","u","l","d"," ","n","o","t"," ","c","o","n","n",
      "e","c","t"," ","t","o"," ","t","h","e"," ","d","a","t",
      "a","b","a","s","e","."," ","P","l","e","a","s","e"," ",
      "c","h","e","c","k"," ","y","o","u","r"," ","c","r","e",
      "d","e","n","t","i","a","l","s",".">>

SchemaFetchErrorPrefix == <<"E","r","r","o","r"," ","f","e","t","c","h","i","n","g",
                            " ","s","c","h","e","m","a",":"," ">>

SchemaMissingError ==
    <<"C","o","u","l","d"," ","n","o","t"," ","f","e","t","c",
      "h"," ","d","a","t","a","b","a","s","e"," ","s","c","h",
      "e","m","a","."," ","P","l","e","a","s","e"," ","c","h",
      "e","c","k"," ","y","o","u","r"," ","c","o","n","n","e",
      "c","t","i","o","n"," ","a","n","d"," ","s","e","t","t",
      "i","n","g","s"," ","i","n"," ","t","h","e"," ",".","e",
      "n","v"," ","f","i","l","e",".">>

EnterQueryWarning == <<"P","l","e","a","s","e"," ","e","n","t","e","r"," ","a",
                       " ","q","u","e","r","y",".">>

SuccessMessage == <<"Q","u","e","r","y"," ","p","r","o","c","e","s","s","e",
                    "d"," ","s","u","c","c","e","s","s","f","u","l","l","y",
                    "!">>

ErrorOccurredPrefix == <<"A","n"," ","e","r","r","o","r"," ","o","c","c","u","r",
                         "r","e","d",":"," ">>

NotAvailable == <<"N","/","A">>

Widget(w, text) == [w |-> w, text |-> text]

\* A variant of StartsPipeline that asks for only one of the two.
StartsPipelineEither(q, schema) == q # << >> \/ schema # << >>

\* if user_query and db_schema: a str is truthy when it is not empty
StartsPipeline(q, schema) == q # << >> /\ schema # << >>

\* ------------------------------------------------------------------- state

VARIABLES
    pc,          \* where the script run is: a script block or a graph node
    db_schema,   \* app.py's db_schema
    user_query,  \* app.py's user_query
    state,       \* the AgentState dict travelling through the graph
    conns,       \* the connections this interaction opened: "open" / "closed"
    ui,          \* the widgets this script run has rendered, in order
    trace,       \* the graph nodes that have run in this invoke, in order
    llm,         \* the model calls so far, the last prompt sent and its reply
    db,          \* the statements execute_query has run and the database's answer
    connects,    \* the get_db_connection calls of this interaction: site and success
    exc          \* the exception agent_executor.invoke raised, or None

vars == <<pc, db_schema, user_query, state, conns, ui, trace, llm, db, connects, exc>>

GraphNodes ==
    {"router", "create_agent", "read_agent", "update_agent", "delete_agent",
     "sql_executor"}

Generators == {"create_agent", "read_agent", "update_agent", "delete_agent"}

Init ==
    /\ pc = "schema_fetch"
    /\ db_schema = None
    /\ user_query = None
    /\ state = EmptyDict
    /\ conns = << >>
    /\ ui = << >>
    /\ trace = << >>
    /\ llm = [calls |-> 0, prompt |-> None, reply |-> None]
    /\ db = [executed |-> << >>, outcome |-> NoOutcome]
    /\ connects = << >>
    /\ exc = NoException

\* app.py 21-32: fetch and show the schema
SchemaFetchBlock ==
    /\ pc = "schema_fetch"
    /\ \E connOk \in BOOLEAN, resp \in SchemaResponses :
         LET c == GetDbConnection(conns, connOk)
             r == GetSchema(c.conn, resp)
         IN  /\ connects' = Append(connects, [site |-> "schema_fetch", ok |-> connOk])
             /\ IF c.conn # NoConn
                THEN IF r.raised = NoException
                     THEN /\ db_schema' = r.ret
                          /\ conns' = Close(c.conns, c.conn)
                          /\ ui' = Append(ui, Widget("sidebar.text_area", r.ret))
                     ELSE /\ db_schema' = << >>
                          /\ conns' = c.conns
                          /\ ui' = Append(ui, Widget("sidebar.error",
                                                     SchemaFetchErrorPrefix \o r.raised.msg))
                ELSE /\ db_schema' = SchemaConnectFailed
                     /\ conns' = c.conns
                     /\ ui' = Append(ui, Widget("sidebar.text_area", SchemaConnectFailed))
    /\ pc' = "input"
    /\ UNCHANGED <<user_query, state, trace, llm, db, exc>>

\* app.py 36: the text box's value in this script run
UserInput ==
    /\ pc = "input"
    /\ \E q \in UserQueries : user_query' = q
    /\ pc' = "button"
    /\ UNCHANGED <<db_schema, state, conns, ui, trace, llm, db, connects, exc>>

\* app.py 38-45, 66-69: the button was clicked
ButtonHandler ==
    /\ pc = "button"
    /\ IF StartsPipeline(user_query, db_schema)
       THEN /\ state' = [query |-> user_query, schema |-> db_schema]
            /\ pc' = "router"
            /\ ui' = ui
       ELSE IF db_schema = << >>
       THEN /\ ui' = Append(ui, Widget("error", SchemaMissingError))
            /\ pc' = "done"
            /\ state' = state
       ELSE /\ ui' = Append(ui, Widget("warning", EnterQueryWarning))
            /\ pc' = "done"
            /\ state' = state
    /\ UNCHANGED <<db_schema, user_query, conns, trace, llm, db, connects, exc>>

\* agent_graph.py 25-57 and the conditional edge 189-198
RouterNode ==
    /\ pc = "router"
    /\ \E out \in LlmOutcomes :
         LET prompt == RouterPrompt(state)
             decision == Upper(Strip(out.content))
             st == Put(state, "route_decision", Route(decision))
         IN  /\ llm' = [calls |-> llm.calls + 1, prompt |-> prompt,
                        reply |-> IF out.kind = "reply" THEN out.content ELSE None]
             /\ IF out.kind = "raise"
                THEN /\ exc' = [type |-> "Exception", msg |-> out.content]
                     /\ pc' = "render"
                     /\ state' = state
                ELSE /\ exc' = exc
                     /\ state' = st
                     /\ pc' = NodeFor(SelectRoute(st))
    /\ trace' = Append(trace, "router")
    /\ UNCHANGED <<db_schema, user_query, conns, ui, db, connects>>

\* The body the four generator nodes share: set agent_name, ask the model,
\* store the stripped reply as sql_query; then the edge to sql_executor.
GeneratorNode(node, agent_name, prompt) ==
    /\ pc = node
    /\ \E out \in LlmOutcomes :
         LET st == Put(state, "agent_name", agent_name)
         IN  /\ llm' = [calls |-> llm.calls + 1, prompt |-> prompt,
                        reply |-> IF out.kind = "reply" THEN out.content ELSE None]
             /\ IF out.kind = "raise"
                THEN /\ exc' = [type |-> "Exception", msg |-> out.content]
                     /\ pc' = "render"
                     /\ state' = st
                ELSE /\ exc' = exc
                     /\ state' = Put(st, "sql_query", Strip(out.content))
                     /\ pc' = "sql_executor"
    /\ trace' = Append(trace, node)
    /\ UNCHANGED <<db_schema, user_query, conns, ui, db, connects>>

\* agent_graph.py 69-90
CreateAgent == GeneratorNode("create_agent", <<"C","R","E","A","T","E"," ","A","g","e","n","t">>, CreatePrompt(state))

\* agent_graph.py 92-114
ReadAgent == GeneratorNode("read_agent", <<"R","E","A","D"," ","A","g","e","n","t">>, ReadPrompt(state))

\* agent_graph.py 116-137
UpdateAgent == GeneratorNode("update_agent", <<"U","P","D","A","T","E"," ","A","g","e","n","t">>, UpdatePrompt(state))

\* agent_graph.py 139-160
DeleteAgent == GeneratorNode("delete_agent", <<"D","E","L","E","T","E"," ","A","g","e","n","t">>, DeletePrompt(state))

\* agent_graph.py 162-169, then the edge to END
SqlExecutorNode ==
    /\ pc = "sql_executor"
    /\ \E connOk \in BOOLEAN, out \in DbOutcomes :
         LET c == GetDbConnection(conns, connOk)
             r == ExecuteQuery(c.conn, state["sql_query"], out)
         IN  /\ connects' = Append(connects, [site |-> "sql_executor", ok |-> connOk])
             /\ db' = [executed |-> db.executed \o r.executed,
                       outcome |-> IF r.executed # << >> THEN out ELSE NoOutcome]
             /\ IF r.raised # NoException
                THEN /\ exc' = r.raised
                     /\ state' = state
                     /\ conns' = c.conns
                ELSE /\ state' = Put(state, "result", Str(r.ret))
                     /\ IF c.conn = NoConn
                        THEN /\ exc' = NoneCloseError
                             /\ conns' = c.conns
                        ELSE /\ exc' = exc
                             /\ conns' = Close(c.conns, c.conn)
    /\ trace' = Append(trace, "sql_executor")
    /\ pc' = "render"
    /\ UNCHANGED <<db_schema, user_query, ui, llm>>

\* app.py 48-65: show the final state, or the exception invoke raised
Render ==
    /\ pc = "render"
    /\ IF exc = NoException
       THEN ui' = ui \o
                << Widget("success", SuccessMessage),
                   Widget("info", <<"*","*","I","n","v","o","k","e","d"," ","A","g","e","n",
                                    "t",":","*","*"," ",Backtick>>
                                      \o Get(state, "agent_name", NotAvailable) \o <<Backtick>>),
                   Widget("text_area", Get(state, "sql_query", NotAvailable)),
                   Widget("code", Get(state, "result", NotAvailable)) >>
       ELSE ui' = Append(ui, Widget("error", ErrorOccurredPrefix \o exc.msg))
    /\ pc' = "done"
    /\ UNCHANGED <<db_schema, user_query, state, conns, trace, llm, db, connects, exc>>

\* The next interaction reruns the script from the top; nothing is kept.
Rerun ==
    /\ pc \in {"button", "done"}
    /\ pc' = "schema_fetch"
    /\ db_schema' = None
    /\ user_query' = None
    /\ state' = EmptyDict
    /\ conns' = << >>
    /\ ui' = << >>
    /\ trace' = << >>
    /\ llm' = [calls |-> 0, prompt |-> None, reply |-> None]
    /\ db' = [executed |-> << >>, outcome |-> NoOutcome]
    /\ connects' = << >>
    /\ exc' = NoException

Next ==
    \/ SchemaFetchBlock
    \/ UserInput
    \/ ButtonHandler
    \/ RouterNode
    \/ CreateAgent
    \/ ReadAgent
    \/ UpdateAgent
    \/ DeleteAgent
    \/ SqlExecutorNode
    \/ Render
    \/ Rerun

Spec == Init /\ [][Next]_vars

\* ------------------------------------------------------------------ claims

Last(s) == s[Len(s)]

\* The router has just returned: llm.reply is the classification reply.
RouterDone == trace = <<"router">> /\ exc = NoException

\* A generator has just returned: llm.reply is the statement reply.
GeneratorDone == Len(trace) = 2 /\ exc = NoException

Keywords == {CREATE, UPDATE, DELETE}

\* C1 as stated: a reply that contains none of the substrings CREATE, UPDATE,
\* DELETE is routed to READ.
C1_RawReplyDefaultsToRead ==
    (RouterDone /\ \A w \in Keywords : ~Contains(llm.reply, w))
        => state["route_decision"] = READ

\* C1 amended: a reply whose upper-casing contains none of the substrings
\* CREATE, UPDATE, DELETE is routed to READ.
C1_UpperReplyDefaultsToRead ==
    (RouterDone /\ \A w \in Keywords : ~Contains(Upper(llm.reply), w))
        => state["route_decision"] = READ

\* C1 witness: a non-empty reply without any keyword in either case went to read_agent.
C1_Witness ==
    /\ RouterDone
    /\ llm.reply # << >>
    /\ \A w \in Keywords : ~Contains(Upper(llm.reply), w)
    /\ state["route_decision"] = READ
    /\ pc = "read_agent"

\* The order CREATE, UPDATE, DELETE, first match wins, over the text r.
FirstMatchOrder(r, route) ==
    /\ Contains(r, CREATE) => route = CREATE
    /\ (Contains(r, UPDATE) /\ ~Contains(r, CREATE)) => route = UPDATE
    /\ (Contains(r, DELETE) /\ ~Contains(r, CREATE) /\ ~Contains(r, UPDATE))
           => route = DELETE
    /\ route \in {CREATE, READ, UPDATE, DELETE}

\* C2 as stated: the reply is checked for CREATE, UPDATE, DELETE in that order,
\* the first one found decides, and the route is one of the four labels.
C2_RawReplyFirstMatch ==
    RouterDone => FirstMatchOrder(llm.reply, state["route_decision"])

\* C2 amended: the upper-cased reply is checked for CREATE, UPDATE, DELETE in
\* that order, the first one found decides, and the route is one of the four
\* labels.
C2_UpperReplyFirstMatch ==
    RouterDone => FirstMatchOrder(Upper(llm.reply), state["route_decision"])

\* C2 witness: a reply holding both DELETE and CREATE was routed to CREATE.
C2_Witness ==
    /\ RouterDone
    /\ Contains(llm.reply, DELETE)
    /\ Contains(llm.reply, CREATE)
    /\ state["route_decision"] = CREATE
    /\ pc = "create_agent"

\* C3: a statement whose execution fails in the database yields a result that
\* starts with "SQL Error:", no exception leaves the graph, and the request
\* completes showing that string as its result.
C3_SqlErrorIsReturnedNotRaised ==
    db.outcome.kind = "sql_error" =>
        /\ exc = NoException
        /\ "result" \in DOMAIN state
        /\ StartsWith(state["result"], <<"S","Q","L"," ","E","r","r","o","r",":">>)
        /\ pc \in {"render", "done"}
        /\ pc = "done" => Last(ui) = Widget("code", state["result"])

\* C3 witness: a request whose statement the database refused completed and shows the
\* "SQL Error:" text.
C3_Witness ==
    /\ pc = "done"
    /\ db.outcome.kind = "sql_error"
    /\ db.executed = <<state["sql_query"]>>
    /\ Last(ui).w = "code"
    /\ StartsWith(Last(ui).text, <<"S","Q","L"," ","E","r","r","o","r",":">>)

\* C4 as stated: when the interaction has ended, every connection it opened
\* is closed, and it opened at most one.
C4_OneConnectionOpenedAndClosed ==
    pc = "done" =>
        /\ \A i \in 1..Len(conns) : conns[i] = "closed"
        /\ Len(conns) <= 1

\* C5 as stated: when get_db_connection returned None, the user is shown a
\* text that reports the connection failure: in the sidebar for the schema
\* fetch, in the main panel for the executor.
C5_ConnectionFailureIsReported ==
    pc = "done" =>
        \A i \in 1..Len(connects) :
            ~connects[i].ok =>
                \E j \in 1..Len(ui) :
                    /\ Contains(ui[j].text, <<"C","o","u","l","d"," ","n","o","t"," ","c","o","n","n",
                                              "e","c","t">>)
                    /\ (connects[i].site = "schema_fetch")
                           <=> (ui[j].w \in {"sidebar.text_area", "sidebar.error"})

\* s is r without its leading and trailing whitespace, and nothing else changed.
IsStripped(s, r) ==
    \E i \in 0..Len(r), j \in 0..Len(r) :
        /\ i + j <= Len(r)
        /\ s = SubSeq(r, i + 1, Len(r) - j)
        /\ \A k \in 1..i : r[k] \in Whitespace
        /\ \A k \in (Len(r) - j + 1)..Len(r) : r[k] \in Whitespace
        /\ s # << >> => (s[1] \notin Whitespace /\ s[Len(s)] \notin Whitespace)

\* C6 as stated: the text handed to the database is the model's reply,
\* character for character.
C6_ExecutedIsRawReply ==
    /\ GeneratorDone => state["sql_query"] = llm.reply
    /\ db.executed # << >> => db.executed = <<llm.reply>>

\* C6 amended: the text handed to the database is the model's reply without
\* its leading and trailing whitespace, otherwise character for character.
C6_ExecutedIsStrippedReply ==
    /\ GeneratorDone => IsStripped(state["sql_query"], llm.reply)
    /\ db.executed # << >> =>
           /\ db.executed = <<state["sql_query"]>>
           /\ IsStripped(db.executed[1], llm.reply)

\* C6 witness: a statement was executed that differs from the raw reply only by the
\* whitespace around it.
C6_Witness ==
    /\ db.executed # << >>
    /\ db.executed[1] # << >>
    /\ db.executed[1] # llm.reply
    /\ IsStripped(db.executed[1], llm.reply)

\* C7: the prompt a generator sends to the model contains the state's schema
\* as a contiguous substring.
C7_PromptContainsSchema ==
    (Len(trace) = 2 /\ trace[2] \in Generators)
        => Contains(llm.prompt, state["schema"])

\* C7 witness: delete_agent sent a prompt holding a multi-line schema.
C7_Witness ==
    /\ Len(trace) = 2
    /\ trace[2] = "delete_agent"
    /\ Len(state["schema"]) > 1
    /\ Contains(state["schema"], <<"\n">>)
    /\ Contains(llm.prompt, state["schema"])

\* The generator node and agent name that belong to a route label.
GeneratorOf(route) ==
    CASE route = CREATE -> [node |-> "create_agent", name |-> <<"C","R","E","A","T","E"," ","A","g","e","n","t">>]
      [] route = READ -> [node |-> "read_agent", name |-> <<"R","E","A","D"," ","A","g","e","n","t">>]
      [] route = UPDATE -> [node |-> "update_agent", name |-> <<"U","P","D","A","T","E"," ","A","g","e","n","t">>]
      [] route = DELETE -> [node |-> "delete_agent", name |-> <<"D","E","L","E","T","E"," ","A","g","e","n","t">>]

RECURSIVE Lines(_)
Lines(s) ==
    IF \A k \in 1..Len(s) : s[k] # "\n" THEN <<s>>
    ELSE LET nl == Min({k \in 1..Len(s) : s[k] = "\n"})
         IN  <<SubSeq(s, 1, nl - 1)>> \o Lines(SubSeq(s, nl + 1, Len(s)))

\* Shape 1: a header of " | "-separated column names, a rule of dashes as
\* long as the header, then one "(...)" line per row.
IsTable(s, cols, nrows) ==
    LET ls == Lines(s)
    IN  /\ Len(ls) = 2 + nrows
        /\ ls[1] = Join(<<" ","|"," ">>, cols)
        /\ Len(ls[2]) = Len(ls[1])
        /\ \A k \in 1..Len(ls[2]) : ls[2][k] = "-"
        /\ \A i \in 3..Len(ls) : StartsWith(ls[i], <<"(">>) /\ EndsWith(ls[i], <<")">>)

\* Shape 2: "Query executed successfully. N rows affected."
IsAffectedMessage(s) ==
    LET pre == <<"Q","u","e","r","y"," ","e","x","e","c","u","t","e","d",
                 " ","s","u","c","c","e","s","s","f","u","l","l","y",".",
                 " ">>
        suf == <<" ","r","o","w","s"," ","a","f","f","e","c","t","e","d",
                 ".">>
    IN  /\ StartsWith(s, pre)
        /\ EndsWith(s, suf)
        /\ Len(s) > Len(pre) + Len(suf)
        /\ \A k \in (Len(pre) + 1)..(Len(s) - Len(suf)) :
               \E d \in 1..Len(Digits) : s[k] = Digits[d]

\* Shape 3: an error string.
IsErrorString(s) == StartsWith(s, <<"S","Q","L"," ","E","r","r","o","r",":">>)

\* A statement ran on a live connection and the executor stored its result.
Executed == db.outcome.kind # "none" /\ "result" \in DOMAIN state

\* C9 as stated: the result of a statement executed on a live connection is a
\* table, the rows-affected message or an error string, also when a
\* row-returning statement returns no rows.
C9_ThreeShapes ==
    Executed =>
        \/ \E c \in ResultColumns, n \in 0..MaxRows : IsTable(state["result"], c, n)
        \/ IsAffectedMessage(state["result"])
        \/ IsErrorString(state["result"])

\* C9 amended: the result is a table when rows were fetched, the text "[]"
\* when a row-returning statement returned no rows, the rows-affected message
\* when the statement returns no result set, and an error string when the
\* database refused it; the result panel shows exactly that text.
C9_FourShapes ==
    Executed =>
        /\ CASE db.outcome.kind = "rows" /\ db.outcome.rows # << >> ->
                    IsTable(state["result"], db.outcome.cols, Len(db.outcome.rows))
             [] db.outcome.kind = "rows" /\ db.outcome.rows = << >> ->
                    state["result"] = <<"[","]">>
             [] db.outcome.kind = "rowcount" -> IsAffectedMessage(state["result"])
             [] db.outcome.kind = "sql_error" -> IsErrorString(state["result"])
        /\ pc = "done" => Last(ui) = Widget("code", state["result"])

\* C9 witness: a row-returning statement returned no rows and the panel shows "[]".
C9_Witness ==
    /\ pc = "done"
    /\ db.outcome.kind = "rows"
    /\ db.outcome.rows = << >>
    /\ Last(ui) = Widget("code", <<"[","]">>)

\* C10: the pipeline runs only when the query and the schema are both
\* non-empty; otherwise no model call is made, no statement is executed, the
\* executor opens no connection, and the click shows one warning or error.
C10_PipelineNeedsQueryAndSchema ==
    /\ (pc \in GraphNodes \/ trace # << >> \/ llm.calls > 0 \/ db.executed # << >>)
           => (user_query # << >> /\ db_schema # << >>)
    /\ (pc = "done" /\ (user_query = << >> \/ db_schema = << >>)) =>
           /\ llm.calls = 0
           /\ db.executed = << >>
           /\ trace = << >>
           /\ \A i \in 1..Len(connects) : connects[i].site # "sql_executor"
           /\ Len(ui) = 2
           /\ Last(ui).w \in {"warning", "error"}

\* C10 witness: a click with an empty query and a schema showed only the warning.
C10_Witness ==
    /\ pc = "done"
    /\ user_query = << >>
    /\ db_schema # << >>
    /\ llm.calls = 0
    /\ Last(ui) = Widget("warning", EnterQueryWarning)

=============================================================================
